---- MODULE Spec2Model ----
(***************************************************************************)
(* State-machine model of the masthead search widget (MastheadSearch):     *)
(* the reducer-held view-state, the event handlers wired to the            *)
(* auto-suggest engine and to the document, the two asynchronous remote    *)
(* calls (locale lookup, suggestion fetch) and the redirect URL.           *)
(*                                                                         *)
(* Strings are sequences of one-character strings (a multi-character       *)
(* element stands for a fixed literal of the source), so that trimming,    *)
(* lower-casing and percent-encoding are computed character by character.  *)
(* The empty sequence is the empty string; it also stands for "no value"   *)
(* where JavaScript treats '' and undefined alike (both falsy).            *)
(*                                                                         *)
(* Two custom elements are modelled beside it, each with a specification   *)
(* of its own: the video player (DDSVideoPlayer, VideoSpec) and the lead   *)
(* space (DDSLeadSpace, LeadSpec).  Under Spec they stay as constructed;   *)
(* under VideoSpec and LeadSpec the search widget stays as first rendered. *)
(* ReducerSpec applies the reducer alone to any action; HarnessSpec is the *)
(* run of the callout quote's visual-regression test file.                 *)
(***************************************************************************)
EXTENDS Integers, Sequences, FiniteSets, TLC

VARIABLES
  props,      \* the props the component was rendered with
  state,      \* the useReducer view-state
  pending,    \* reducer actions dispatched by the running handler, not yet reduced
  phase,      \* "rendered" (effects not yet run), "mounted", "unmounted"
  aborted,    \* abortController.signal.aborted
  locale,     \* the LocaleAPI.getLang() call: status and response
  inflight,   \* suggestion fetches awaiting their response, in order of issue
  focused,    \* the search input has the keyboard focus
  last,       \* the most recent browser event: what it saw, emitted and navigated to
  player,     \* the video player element: properties, requested update, rendering
  playerLast, \* the most recent operation on the video player and its events
  leadspace,  \* the lead space element: properties, requested update, rendering
  harness     \* the run of the callout quote's visual-regression test file

vars == <<props, state, pending, phase, aborted, locale, inflight, focused, last,
         player, playerLast, leadspace, harness>>

----------------------------------------------------------------------------
(* Bounds *)

MaxInFlight == 2

\* the properties of the video player a page assigns between two of its updates
MaxBatch == 2

----------------------------------------------------------------------------
(* Strings *)

IsSpace(ch) == ch = " "

RECURSIVE TrimStart(_)
TrimStart(s) ==
  IF s = <<>> THEN <<>>
  ELSE IF IsSpace(Head(s)) THEN TrimStart(Tail(s)) ELSE s

RECURSIVE TrimEnd(_)
TrimEnd(s) ==
  IF s = <<>> THEN <<>>
  ELSE IF IsSpace(s[Len(s)]) THEN TrimEnd(SubSeq(s, 1, Len(s) - 1)) ELSE s

\* String.prototype.trim
Trim(s) == TrimEnd(TrimStart(s))

LowerChar(ch) == IF ch = "C" THEN "c" ELSE ch

\* String.prototype.toLowerCase
ToLowerCase(s) == [i \in 1..Len(s) |-> LowerChar(s[i])]

_trimAndLower(valueString) == Trim(ToLowerCase(valueString))

\* escapeRegExp: every regular-expression metacharacter gets a backslash
RegExpSpecial == {"?", "*", "+", ".", "^", "$", "(", ")", "[", "]", "{", "}", "|", "\\"}

RECURSIVE escapeRegExp(_)
escapeRegExp(s) ==
  IF s = <<>> THEN <<>>
  ELSE (IF Head(s) \in RegExpSpecial THEN <<"\\", Head(s)>> ELSE <<Head(s)>>)
         \o escapeRegExp(Tail(s))

\* encodeURIComponent on one character: letters are kept, the others become
\* the percent-escape of their UTF-8 byte
EncodeChar(ch) ==
  CASE ch = " " -> <<"%", "2", "0">>
    [] ch = "&" -> <<"%", "2", "6">>
    [] ch = "?" -> <<"%", "3", "F">>
    [] OTHER    -> <<ch>>

RECURSIVE encodeURIComponent(_)
encodeURIComponent(s) ==
  IF s = <<>> THEN <<>> ELSE EncodeChar(Head(s)) \o encodeURIComponent(Tail(s))

_redirectUrl == <<"https://www.ibm.com/search?lnk=mhsrch">>

----------------------------------------------------------------------------
(* Input domains *)

\* the texts a user may have in the input: empty, one that is long enough
\* only before trimming, and one that is long enough and needs escaping
Texts ==
  { <<>>,
    <<" ", "c", "l", " ">>,
    <<"C", "&", "?">> }

\* suggestion records: an array-like item (suggestion[0]) or a named item
CloudItem == [zero |-> <<>>, name |-> <<"C", "&", "?">>]
ArrayItem == [zero |-> <<" ", "c", "l", " ">>, name |-> <<"C", "&", "?">>]

Items == {CloudItem, ArrayItem}

\* the defined results a suggestion provider may resolve to
Results == { <<>>, <<CloudItem>>, <<ArrayItem, CloudItem>> }

\* what a suggestion provider call may settle to
Responses ==
  { [kind |-> "value", value |-> r] : r \in Results }
    \cup { [kind |-> "undefined", value |-> <<>>],
           [kind |-> "rejected", value |-> <<>>] }

\* what the locale lookup may resolve to
LocaleResponses ==
  { [kind |-> "value", lc |-> <<"f", "r">>, cc |-> <<"c", "a">>],
    [kind |-> "undefined", lc |-> <<>>, cc |-> <<>>] }

RenderValueDefault == 3

\* the JavaScript value null, where a string is expected
Null == <<"null">>

\* the page's query string as URLSearchParams reads it: the value of its q
\* parameter (Null when there is none), or a failure while reading it
NoQuery == [q |-> Null, throws |-> FALSE]

\* MastheadSearch.defaultProps, on a page without a q parameter
defaultProps ==
  [ initialSearchTerm |-> <<>>, renderValue |-> RenderValueDefault,
    searchOpenOnload |-> FALSE, searchNoRedirect |-> FALSE,
    customTypeaheadApi |-> FALSE, inMasthead |-> TRUE, queryString |-> NoQuery ]

\* the configurations the widget is rendered with: the defaults with every
\* combination of the three switches, one that starts open with a search
\* term, one whose gate lets every text through, and the defaults on pages
\* with a q parameter, an empty q parameter and an unreadable URL
PropsSet ==
  [ initialSearchTerm  : { <<>> },
    renderValue        : { RenderValueDefault },
    searchOpenOnload   : { FALSE },
    searchNoRedirect   : BOOLEAN,
    customTypeaheadApi : BOOLEAN,
    inMasthead         : BOOLEAN,
    queryString        : { NoQuery } ]
  \cup
  { [ initialSearchTerm |-> <<"C", "&", "?">>, renderValue |-> RenderValueDefault,
      searchOpenOnload |-> TRUE, searchNoRedirect |-> FALSE,
      customTypeaheadApi |-> FALSE, inMasthead |-> TRUE,
      queryString |-> [q |-> <<" ", "c", "l", " ">>, throws |-> FALSE] ],
    [ initialSearchTerm |-> <<>>, renderValue |-> 0,
      searchOpenOnload |-> FALSE, searchNoRedirect |-> TRUE,
      customTypeaheadApi |-> TRUE, inMasthead |-> TRUE, queryString |-> NoQuery ] }
  \cup
  [ initialSearchTerm  : { <<>> },
    renderValue        : { RenderValueDefault },
    searchOpenOnload   : { FALSE },
    searchNoRedirect   : { FALSE },
    customTypeaheadApi : { FALSE },
    inMasthead         : { TRUE },
    queryString        : { [q |-> <<"C", "&", "?">>, throws |-> FALSE],
                           [q |-> <<>>, throws |-> FALSE],
                           [q |-> Null, throws |-> TRUE] } ]

----------------------------------------------------------------------------
(* The reducer *)

_getSuggestionValue(suggestion) ==
  IF suggestion.zero # <<>> THEN suggestion.zero ELSE suggestion.name

Act(type, payload) == [type |-> type, payload |-> payload]

\* _reducer with a setSuggestionsToPrevious that appends to the active list
_reducer_merging(st, action) ==
  CASE action.type = "setVal" -> [st EXCEPT !.val = action.payload]
    [] action.type = "emptySuggestions" -> [st EXCEPT !.suggestions = <<>>]
    [] action.type = "setPrevSuggestions" ->
         [st EXCEPT !.prevSuggestions = action.payload]
    [] action.type = "setSuggestionsToPrevious" ->
         [st EXCEPT !.suggestions = st.suggestions \o st.prevSuggestions]
    [] action.type = "showSuggestionsContainer" ->
         [st EXCEPT !.suggestionContainerVisible = TRUE]
    [] action.type = "hideSuggestionsContainer" ->
         [st EXCEPT !.suggestionContainerVisible = FALSE]
    [] action.type = "setSearchOpen" -> [st EXCEPT !.isSearchOpen = TRUE]
    [] action.type = "setSearchClosed" -> [st EXCEPT !.isSearchOpen = FALSE]
    [] action.type = "setLc" -> [st EXCEPT !.lc = action.payload]
    [] action.type = "setCc" -> [st EXCEPT !.cc = action.payload]
    [] OTHER -> st

\* _reducer whose setSearchClosed also clears the text
_reducer_closingClears(st, action) ==
  CASE action.type = "setVal" -> [st EXCEPT !.val = action.payload]
    [] action.type = "emptySuggestions" -> [st EXCEPT !.suggestions = <<>>]
    [] action.type = "setPrevSuggestions" ->
         [st EXCEPT !.prevSuggestions = action.payload]
    [] action.type = "setSuggestionsToPrevious" ->
         [st EXCEPT !.suggestions = st.prevSuggestions]
    [] action.type = "showSuggestionsContainer" ->
         [st EXCEPT !.suggestionContainerVisible = TRUE]
    [] action.type = "hideSuggestionsContainer" ->
         [st EXCEPT !.suggestionContainerVisible = FALSE]
    [] action.type = "setSearchOpen" -> [st EXCEPT !.isSearchOpen = TRUE]
    [] action.type = "setSearchClosed" ->
         [st EXCEPT !.isSearchOpen = FALSE, !.val = <<>>]
    [] action.type = "setLc" -> [st EXCEPT !.lc = action.payload]
    [] action.type = "setCc" -> [st EXCEPT !.cc = action.payload]
    [] OTHER -> st

_reducer(st, action) ==
  CASE action.type = "setVal" -> [st EXCEPT !.val = action.payload]
    [] action.type = "emptySuggestions" -> [st EXCEPT !.suggestions = <<>>]
    [] action.type = "setPrevSuggestions" ->
         [st EXCEPT !.prevSuggestions = action.payload]
    [] action.type = "setSuggestionsToPrevious" ->
         [st EXCEPT !.suggestions = st.prevSuggestions]
    [] action.type = "showSuggestionsContainer" ->
         [st EXCEPT !.suggestionContainerVisible = TRUE]
    [] action.type = "hideSuggestionsContainer" ->
         [st EXCEPT !.suggestionContainerVisible = FALSE]
    [] action.type = "setSearchOpen" -> [st EXCEPT !.isSearchOpen = TRUE]
    [] action.type = "setSearchClosed" -> [st EXCEPT !.isSearchOpen = FALSE]
    [] action.type = "setLc" -> [st EXCEPT !.lc = action.payload]
    [] action.type = "setCc" -> [st EXCEPT !.cc = action.payload]
    [] OTHER -> st

\* new URLSearchParams(root.location.search).get('q'), '' when it throws
getValueFromQueryString(p) ==
  IF p.queryString.throws THEN <<>> ELSE p.queryString.q

\* a || b on values that are strings or null
Or(a, b) == IF a = <<>> \/ a = Null THEN b ELSE a

\* _initialState without the final || ''
_initialState_withoutDefault(p) ==
  [ val |-> Or(p.initialSearchTerm, getValueFromQueryString(p)),
    suggestions |-> <<>>,
    prevSuggestions |-> <<>>,
    suggestionContainerVisible |-> FALSE,
    isSearchOpen |-> p.searchOpenOnload,
    lc |-> <<"e", "n">>,
    cc |-> <<"u", "s">> ]

_initialState(p) ==
  [ val |-> Or(Or(p.initialSearchTerm, getValueFromQueryString(p)), <<>>),
    suggestions |-> <<>>,
    prevSuggestions |-> <<>>,
    suggestionContainerVisible |-> FALSE,
    isSearchOpen |-> p.searchOpenOnload,
    lc |-> <<"e", "n">>,
    cc |-> <<"u", "s">> ]

----------------------------------------------------------------------------
(* Handlers.  A handler reads the view-state of the render it closes over  *)
(* and the props, and produces effects: the notifications it emits, the    *)
(* reducer actions it dispatches, the URL it assigns to the location, the  *)
(* remote suggestion calls it starts, whether it cancels the event's       *)
(* default action and the element it moves focus to.  The log keeps the    *)
(* order of these steps and the handler (with its request reason) that     *)
(* made each of them.                                                      *)

NoEffect ==
  [emit |-> <<>>, dispatch |-> <<>>, nav |-> <<>>, fetch |-> <<>>,
   prevented |-> FALSE, focus |-> "", log |-> <<>>]

Step(step, type) == [by |-> "", arg |-> "", step |-> step, type |-> type]

Emit(type, value) ==
  [NoEffect EXCEPT !.emit = <<[type |-> type, value |-> value]>>,
                   !.log = <<Step("emit", type)>>]

Dispatches(actions) ==
  [NoEffect EXCEPT !.dispatch = actions,
                   !.log = [i \in DOMAIN actions |-> Step("dispatch", actions[i].type)]]

\* root.parent.location.href = url
Navigate(url) == [NoEffect EXCEPT !.nav = url, !.log = <<Step("navigate", "")>>]

\* a call of the suggestion provider
StartFetch(request) ==
  [NoEffect EXCEPT !.fetch = <<request>>, !.log = <<Step("fetch", request.provider)>>]

\* event.preventDefault()
PreventDefault ==
  [NoEffect EXCEPT !.prevented = TRUE, !.log = <<Step("preventDefault", "")>>]

\* element.focus()
Focus(element) == [NoEffect EXCEPT !.focus = element, !.log = <<Step("focus", element)>>]

\* effects of running handler a and then handler b in the same event
Then(a, b) ==
  [emit      |-> a.emit \o b.emit,
   dispatch  |-> a.dispatch \o b.dispatch,
   nav       |-> IF b.nav # <<>> THEN b.nav ELSE a.nav,
   fetch     |-> a.fetch \o b.fetch,
   prevented |-> a.prevented \/ b.prevented,
   focus     |-> IF b.focus # "" THEN b.focus ELSE a.focus,
   log       |-> a.log \o b.log]

\* the effects eff as made by the handler `name' called with `arg'
By(name, arg, eff) ==
  [eff EXCEPT !.log = [i \in DOMAIN eff.log |->
                         [eff.log[i] EXCEPT !.by = name, !.arg = arg]]]

\* handleHideSearch without the test of the panel's visibility
handleHideSearch_anyPanel(st, key) ==
  IF key = "Escape"
    THEN Dispatches(<<Act("setSearchClosed", <<>>)>>)
    ELSE NoEffect

handleHideSearch(st, key) ==
  By("handleHideSearch", key,
     IF key = "Escape" /\ ~st.suggestionContainerVisible
       THEN Dispatches(<<Act("setSearchClosed", <<>>)>>)
       ELSE NoEffect)

\* handleClickOutside without the test of the text's length
handleClickOutside_anyText(st, p, targetInMasthead) ==
  IF p.inMasthead /\ ~targetInMasthead
    THEN Dispatches(<<Act("setSearchClosed", <<>>)>>)
    ELSE NoEffect

\* mastheadRef exists when the widget is rendered inside a .bx--masthead
handleClickOutside(st, p, targetInMasthead) ==
  By("handleClickOutside", "",
     IF p.inMasthead /\ ~targetInMasthead /\ Len(st.val) = 0
       THEN Dispatches(<<Act("setSearchClosed", <<>>)>>)
       ELSE NoEffect)

onSearchNoRedirect(val) == Emit("onSearchNoRedirect", val)

\* onChange that also empties the suggestions
onChange_clearing(newValue) ==
  By("onChange", "",
     Then(Emit("onSearchValueChanged", newValue),
          Dispatches(<<Act("setVal", newValue), Act("emptySuggestions", <<>>)>>)))

onChange(newValue) ==
  By("onChange", "",
     Then(Emit("onSearchValueChanged", newValue),
          Dispatches(<<Act("setVal", newValue)>>)))

\* onKeyDown without the switch on the key
onKeyDown_anyKey(st, p, key) ==
  By("onKeyDown", key,
     IF p.searchNoRedirect
       THEN Then(onSearchNoRedirect(st.val), PreventDefault)
       ELSE NoEffect)

onKeyDown(st, p, key) ==
  By("onKeyDown", key,
     IF key = "Enter" /\ p.searchNoRedirect
       THEN Then(onSearchNoRedirect(st.val), PreventDefault)
       ELSE NoEffect)

\* getRedirect that interpolates the value as it is
getRedirect_unencoded(st, value) ==
  _redirectUrl \o <<"&q=">> \o value
    \o <<"&lang=">> \o st.lc \o <<"&cc=">> \o st.cc

getRedirect(st, value) ==
  _redirectUrl \o <<"&q=">> \o encodeURIComponent(value)
    \o <<"&lang=">> \o st.lc \o <<"&cc=">> \o st.cc

\* searchIconClick submitting the text without testing that the widget is open
searchIconClick_submitsWhenClosed(st, p) ==
  By("searchIconClick", "",
     Then(
       IF ~st.isSearchOpen THEN Emit("onOpenSearch", <<>>)
                           ELSE Emit("onSearchButtonClicked", st.val),
       IF Len(st.val) # 0
         THEN IF p.searchNoRedirect
                THEN onSearchNoRedirect(st.val)
                ELSE Navigate(getRedirect(st, st.val))
         ELSE Dispatches(<<Act("setSearchOpen", <<>>)>>)))

\* searchIconClick navigating whatever searchNoRedirect says
searchIconClick_alwaysRedirects(st, p) ==
  By("searchIconClick", "",
     Then(
       IF ~st.isSearchOpen THEN Emit("onOpenSearch", <<>>)
                           ELSE Emit("onSearchButtonClicked", st.val),
       IF st.isSearchOpen /\ Len(st.val) # 0
         THEN Navigate(getRedirect(st, st.val))
         ELSE Dispatches(<<Act("setSearchOpen", <<>>)>>)))

\* searchIconClick toggling: an open widget without text is closed
searchIconClick_toggling(st, p) ==
  By("searchIconClick", "",
     Then(
       IF ~st.isSearchOpen THEN Emit("onOpenSearch", <<>>)
                           ELSE Emit("onSearchButtonClicked", st.val),
       IF st.isSearchOpen /\ Len(st.val) # 0
         THEN IF p.searchNoRedirect
                THEN onSearchNoRedirect(st.val)
                ELSE Navigate(getRedirect(st, st.val))
         ELSE IF st.isSearchOpen
                THEN Dispatches(<<Act("setSearchClosed", <<>>)>>)
                ELSE Dispatches(<<Act("setSearchOpen", <<>>)>>)))

searchIconClick(st, p) ==
  By("searchIconClick", "",
     Then(
       IF ~st.isSearchOpen THEN Emit("onOpenSearch", <<>>)
                           ELSE Emit("onSearchButtonClicked", st.val),
       IF st.isSearchOpen /\ Len(st.val) # 0
         THEN IF p.searchNoRedirect
                THEN onSearchNoRedirect(st.val)
                ELSE Navigate(getRedirect(st, st.val))
         ELSE Dispatches(<<Act("setSearchOpen", <<>>)>>)))

resetSearch ==
  Dispatches(<<Act("setSearchClosed", <<>>), Act("setVal", <<>>)>>)

\* closeBtnAction resetting the search before it emits the notification
closeBtnAction_resetFirst ==
  By("closeBtnAction", "",
     Then(resetSearch,
          Then(Emit("onSearchCloseClicked", <<>>), Focus("l0-search"))))

closeBtnAction ==
  By("closeBtnAction", "",
     Then(Emit("onSearchCloseClicked", <<>>),
          Then(resetSearch, Focus("l0-search"))))

onSuggestionsClearedRequested ==
  By("onSuggestionsClearedRequested", "",
     Dispatches(<<Act("emptySuggestions", <<>>),
                  Act("hideSuggestionsContainer", <<>>)>>))

\* onSuggestionsFetchRequest calling the provider whatever the reason
onSuggestionsFetchRequest_alwaysFetching(p, request) ==
  By("onSuggestionsFetchRequest", request.reason,
     StartFetch([searchValue |-> _trimAndLower(escapeRegExp(request.value)),
                 provider |-> IF p.customTypeaheadApi THEN "customTypeaheadApi"
                              ELSE "SearchTypeaheadAPI"]))

\* the part of onSuggestionsFetchRequest that runs before the await
onSuggestionsFetchRequest(p, request) ==
  By("onSuggestionsFetchRequest", request.reason,
     IF request.reason = "input-changed"
       THEN StartFetch([searchValue |-> _trimAndLower(escapeRegExp(request.value)),
                        provider |-> IF p.customTypeaheadApi THEN "customTypeaheadApi"
                                     ELSE "SearchTypeaheadAPI"])
     ELSE IF request.reason = "escape-pressed"
       THEN onSuggestionsClearedRequested
       ELSE Dispatches(<<Act("setSuggestionsToPrevious", <<>>),
                         Act("showSuggestionsContainer", <<>>)>>))

\* the resumed handler dispatching setSuggestionsToPrevious before the cache is set
onSuggestionsFetchResponse_staleList(response) ==
  IF response.kind = "value"
    THEN Dispatches(<<Act("setSuggestionsToPrevious", <<>>),
                      Act("setPrevSuggestions", response.value),
                      Act("showSuggestionsContainer", <<>>)>>)
    ELSE NoEffect

\* the resumed handler treating an undefined response as an empty result
onSuggestionsFetchResponse_undefinedAsEmpty(response) ==
  IF response.kind \in {"value", "undefined"}
    THEN Dispatches(<<Act("setPrevSuggestions", response.value),
                      Act("setSuggestionsToPrevious", <<>>),
                      Act("showSuggestionsContainer", <<>>)>>)
    ELSE NoEffect

\* the part of onSuggestionsFetchRequest that runs when the await settles;
\* a rejected call throws out of the async function
onSuggestionsFetchResponse(response) ==
  IF response.kind = "value"
    THEN Dispatches(<<Act("setPrevSuggestions", response.value),
                      Act("setSuggestionsToPrevious", <<>>),
                      Act("showSuggestionsContainer", <<>>)>>)
    ELSE NoEffect

onSuggestionSelected(st, p, suggestionValue) ==
  By("onSuggestionSelected", "",
     IF p.searchNoRedirect
       THEN Then(onSearchNoRedirect(suggestionValue), PreventDefault)
       ELSE Navigate(getRedirect(st, suggestionValue)))

shouldRenderSuggestions(p, value) == Len(Trim(value)) >= p.renderValue

\* the locale effect's test without the cancellation flag
LocaleApplies_ignoringAbort(isAborted, response) == response.kind = "value"

\* the locale effect's test before it dispatches setLc and setCc
LocaleApplies(isAborted, response) == ~isAborted /\ response.kind = "value"

----------------------------------------------------------------------------
(* The auto-suggest engine (react-autosuggest) owns the input and calls    *)
(* the handlers it was given as props.  Its calls for one browser event    *)
(* run synchronously, in the order below, against the same render.         *)

\* the engine shows the list it was given when the gate lets it
EnginePanelOpen(st, p) ==
  st.isSearchOpen /\ st.suggestions # <<>> /\ shouldRenderSuggestions(p, st.val)

\* typing: onChange, then a fetch request or a clear request by the gate
EngineInputChange(st, p, newValue) ==
  Then(onChange(newValue),
       IF shouldRenderSuggestions(p, newValue)
         THEN onSuggestionsFetchRequest(p, [value |-> newValue, reason |-> "input-changed"])
         ELSE onSuggestionsClearedRequested)

\* the input takes the focus: the suggestions are asked for again when the
\* gate lets the current text through
EngineFocus(st, p) ==
  IF shouldRenderSuggestions(p, st.val)
    THEN onSuggestionsFetchRequest(p, [value |-> st.val, reason |-> "input-focused"])
    ELSE NoEffect

\* the input loses the focus: the suggestions are cleared
EngineBlur == onSuggestionsClearedRequested

\* Escape in the input: an open list is closed; otherwise the input is cleared
EngineEscape(st, p) ==
  IF EnginePanelOpen(st, p)
    THEN onSuggestionsClearedRequested
    ELSE Then(IF st.val # <<>> THEN onChange(<<>>) ELSE NoEffect,
              IF shouldRenderSuggestions(p, <<>>)
                THEN onSuggestionsFetchRequest(p, [value |-> <<>>, reason |-> "escape-pressed"])
                ELSE onSuggestionsClearedRequested)

\* a click on a suggestion: the input takes the suggestion's value, the
\* selection callback is called, then the list is closed
EngineSuggestionClick(st, p, suggestion) ==
  Then(IF _getSuggestionValue(suggestion) # st.val
         THEN onChange(_getSuggestionValue(suggestion)) ELSE NoEffect,
       Then(onSuggestionSelected(st, p, _getSuggestionValue(suggestion)),
            onSuggestionsClearedRequested))

\* Enter on a highlighted suggestion: as a click, and then the input's own
\* onKeyDown prop is called with the same event
EngineEnterOnSuggestion(st, p, suggestion) ==
  Then(EngineSuggestionClick(st, p, suggestion), onKeyDown(st, p, "Enter"))

----------------------------------------------------------------------------
(* The video player element (DDSVideoPlayer).  Its texts are TLA+ strings; *)
(* '' also stands for undefined where the code only tests truthiness.  A   *)
(* duration is <<>> when undefined and <<n>> when it is the number n.      *)

VIDEO_PLAYER_CONTENT_STATE == [THUMBNAIL |-> "thumbnail", VIDEO |-> "video"]

ddsPrefix == "dds"

eventContentStateChange == ddsPrefix \o "-video-player-content-state-changed"

\* minutes and two digits of seconds of a duration in milliseconds
formatVideoDuration(duration) ==
  IF duration = <<>> THEN ""
  ELSE LET minutes == duration[1] \div 60000
           seconds == (duration[1] \div 1000) % 60
       IN ToString(minutes) \o ":" \o (IF seconds < 10 THEN "0" ELSE "")
            \o ToString(seconds)

\* the name and the parenthesised duration, those that are not empty
formatVideoCaption(duration, name) ==
  IF duration = "" THEN name
  ELSE IF name = "" THEN "(" \o duration \o ")"
  ELSE name \o " (" \o duration \o ")"

\* the formatters a page may set: the defaults and one of its own for each
DurationFormatters == {"formatVideoDuration", "seconds"}

CaptionFormatters == {"formatVideoCaption", "nameFirst"}

CallFormatDuration(formatDuration, duration) ==
  IF formatDuration = "formatVideoDuration" THEN formatVideoDuration(duration)
  ELSE IF duration = <<>> THEN ""
  ELSE ToString(duration[1] \div 1000) \o " s"

CallFormatCaption(formatCaption, duration, name) ==
  IF formatCaption = "formatVideoCaption" THEN formatVideoCaption(duration, name)
  ELSE name \o ": " \o duration

\* !duration ? duration : duration * 1000
Milliseconds(duration) ==
  IF duration = <<>> \/ duration[1] = 0 THEN duration ELSE <<duration[1] * 1000>>

Caption(el) ==
  CallFormatCaption(el.formatCaption,
                    CallFormatDuration(el.formatDuration, Milliseconds(el.duration)),
                    el.name)

NoAttribute == [present |-> FALSE, value |-> ""]

NotRendered == [content |-> "", caption |-> ""]

\* the element as its constructor leaves it: the field initializers have
\* gone through the property setters, nothing is rendered yet
DDSVideoPlayer ==
  [ contentState   |-> VIDEO_PLAYER_CONTENT_STATE.THUMBNAIL,
    duration       |-> <<>>,
    formatCaption  |-> "formatVideoCaption",
    formatDuration |-> "formatVideoDuration",
    name           |-> "",
    videoId        |-> "",
    changed        |-> {"contentState", "formatCaption", "formatDuration", "name"},
    ariaLabel      |-> NoAttribute,
    rendered       |-> NotRendered ]

\* a property setter: a new value is stored and an update is requested
SetProperty(el, name, value) ==
  IF el[name] = value THEN el
  ELSE [el EXCEPT ![name] = value, !.changed = @ \cup {name}]

setAttribute(el, value) == [el EXCEPT !.ariaLabel = [present |-> TRUE, value |-> value]]

CustomEvent(type, bubbles, composed, detail) ==
  [type |-> type, bubbles |-> bubbles, composed |-> composed, detail |-> detail]

\* the listeners run inside dispatchEvent and see the element as it is then
dispatchEvent(el, event) ==
  [event |-> event, target |-> [contentState |-> el.contentState]]

\* _handleClickOverlay dispatching the event before it sets the state
_handleClickOverlay_dispatchFirst(el) ==
  [ el     |-> SetProperty(el, "contentState", VIDEO_PLAYER_CONTENT_STATE.VIDEO),
    events |-> << dispatchEvent(el,
                    CustomEvent(eventContentStateChange, TRUE, TRUE,
                      [videoId |-> el.videoId,
                       contentState |-> VIDEO_PLAYER_CONTENT_STATE.VIDEO])) >> ]

_handleClickOverlay(el) ==
  LET set == SetProperty(el, "contentState", VIDEO_PLAYER_CONTENT_STATE.VIDEO)
      videoId == set.videoId
  IN [ el     |-> set,
       events |-> << dispatchEvent(set,
                       CustomEvent(eventContentStateChange, TRUE, TRUE,
                         [videoId |-> videoId,
                          contentState |-> VIDEO_PLAYER_CONTENT_STATE.VIDEO])) >> ]

\* _renderContent rendering the overlay in every content state
_renderContent_alwaysOverlay(el) == "overlay"

_renderContent(el) ==
  IF el.contentState = VIDEO_PLAYER_CONTENT_STATE.THUMBNAIL THEN "overlay" ELSE "slot"

DDSVideoPlayer_render(el) ==
  [ content |-> _renderContent(el),
    caption |-> Caption(el) ]

updated(el, changedProperties) ==
  IF changedProperties \cap {"duration", "formatCaption", "name"} # {}
  THEN LET caption == Caption(el)
       IN IF caption # "" THEN setAttribute(el, caption) ELSE el
  ELSE el

\* one update cycle: render, then updated() with the properties changed
\* since the last cycle
DDSVideoPlayer_performUpdate(el) ==
  updated([el EXCEPT !.rendered = DDSVideoPlayer_render(el), !.changed = {}], el.changed)

----------------------------------------------------------------------------
(* The lead space element (DDSLeadSpace): a rendering of its properties.   *)

LEADSPACE_TYPE == [LEFT |-> "left", CENTERED |-> "centered", SMALL |-> "small"]

LEADSPACE_GRADIENT_STYLE_SCHEME == [NONE |-> "none", WITH_GRADIENT |-> "with-gradient"]

LEADSPACE_SIZE == [NONE |-> "tall", MEDIUM |-> "medium"]

prefix == "bx"

\* the class names of the map whose value is truthy
classMap(classInfo) == {name \in DOMAIN classInfo : classInfo[name]}

_getBackgroundImage(el) ==
  IF el.defaultSrc # "" /\ el.type = LEADSPACE_TYPE.CENTERED
  THEN "background-image: url(" \o el.defaultSrc \o ")"
  ELSE ""

\* _getGradientClass giving the gradient class under every scheme
_getGradientClass_alwaysGradient(el) ==
  classMap(
    (prefix \o "--leadspace--gradient" :> TRUE)
    @@ (prefix \o "--leadspace__overlay" :> TRUE))

_getGradientClass(el) ==
  classMap(
    (prefix \o "--leadspace--gradient" :>
       (el.gradientStyleScheme = LEADSPACE_GRADIENT_STYLE_SCHEME.WITH_GRADIENT))
    @@ (prefix \o "--leadspace__overlay" :> TRUE))

\* _getTypeClass giving the image class to every centered lead space
_getTypeClass_imageWithoutSrc(el) ==
  classMap(
    (prefix \o "--leadspace--centered" :> (el.type = LEADSPACE_TYPE.CENTERED))
    @@ (prefix \o "--leadspace--centered__image" :>
          (el.type = LEADSPACE_TYPE.CENTERED))
    @@ (prefix \o "--leadspace--productive" :> (el.type = LEADSPACE_TYPE.SMALL))
    @@ (prefix \o "--leadspace__section" :> TRUE))

_getTypeClass(el) ==
  classMap(
    (prefix \o "--leadspace--centered" :> (el.type = LEADSPACE_TYPE.CENTERED))
    @@ (prefix \o "--leadspace--centered__image" :>
          (el.type = LEADSPACE_TYPE.CENTERED /\ el.defaultSrc # ""))
    @@ (prefix \o "--leadspace--productive" :> (el.type = LEADSPACE_TYPE.SMALL))
    @@ (prefix \o "--leadspace__section" :> TRUE))

_getContainerClass(el) ==
  classMap(
    (prefix \o "--leadspace__container--medium" :> (el.size = LEADSPACE_SIZE.MEDIUM))
    @@ (prefix \o "--leadspace__container" :> (el.size = LEADSPACE_SIZE.NONE)))

_getCopyType(el) ==
  classMap(
    (prefix \o "--leadspace__desc--medium" :> (el.size = LEADSPACE_SIZE.MEDIUM))
    @@ (prefix \o "--leadspace__desc" :> (el.size = LEADSPACE_SIZE.NONE)))

_getContentType(el) ==
  classMap(
    (prefix \o "--leadspace--content__container" :> (el.size = LEADSPACE_SIZE.NONE))
    @@ (prefix \o "--leadspace--content__container--medium" :>
          (el.size = LEADSPACE_SIZE.MEDIUM)))

_renderCopy(el) == [class |-> _getCopyType(el), text |-> el.copy]

_renderHeading(el) == [slot |-> "heading", text |-> el.title]

\* the mobile image of a centered lead space, or the image slot
_renderImage(el) ==
  IF el.defaultSrc # "" /\ el.type = LEADSPACE_TYPE.CENTERED
  THEN [ tag |-> "div", class |-> prefix \o "--leadspace--centered--mobile__image",
         src |-> el.defaultSrc, alt |-> el.alt ]
  ELSE [ tag |-> "slot", class |-> "", src |-> "", alt |-> "" ]

\* the offsets of the gradient's stops, none when no gradient is rendered
GradientStops(el) ==
  IF el.gradientStyleScheme = LEADSPACE_GRADIENT_STYLE_SCHEME.NONE THEN <<>>
  ELSE IF el.type = LEADSPACE_TYPE.CENTERED THEN <<"0%", "27%", "53%", "80%">>
  ELSE <<"0%", "50%", "75%">>

DDSLeadSpace_render(el) ==
  [ section   |-> [style |-> _getBackgroundImage(el), class |-> _getTypeClass(el)],
    container |-> _getContainerClass(el),
    overlay   |-> [ class |-> _getGradientClass(el),
                    svg   |-> el.gradientStyleScheme # LEADSPACE_GRADIENT_STYLE_SCHEME.NONE,
                    stops |-> GradientStops(el) ],
    content   |-> [ class |-> _getContentType(el), heading |-> _renderHeading(el),
                    copy |-> _renderCopy(el) ],
    image     |-> _renderImage(el) ]

\* the element as its constructor leaves it, nothing rendered yet
DDSLeadSpace ==
  [ alt                 |-> "",
    defaultSrc          |-> "",
    copy                |-> "",
    gradientStyleScheme |-> LEADSPACE_GRADIENT_STYLE_SCHEME.WITH_GRADIENT,
    title               |-> "",
    type                |-> LEADSPACE_TYPE.LEFT,
    size                |-> "tall",
    changed             |-> {"alt", "defaultSrc", "copy", "gradientStyleScheme",
                             "title", "type", "size"},
    rendered            |-> <<>> ]

\* one update cycle of the lead space
DDSLeadSpace_performUpdate(el) ==
  [el EXCEPT !.rendered = <<DDSLeadSpace_render(el)>>, !.changed = {}]

----------------------------------------------------------------------------
(* The visual-regression test file of the callout quote                    *)
(* (callout-quote.e2e.js): the hooks and the three tests of its describe   *)
(* block, run by Jest one after the other, each a sequence of awaited      *)
(* calls any of which may reject.                                          *)

\* process.env as the file reads it when it is loaded
Envs ==
  [ WEBCOMPONENTS_TESTS : {"", "true"},
    SELENIUM_HOST       : {"", "http://localhost:6006"} ]

_webcomponentsTests(env) == env.WEBCOMPONENTS_TESTS = "true"

_urlDefault(env) ==
  IF _webcomponentsTests(env)
    THEN "https://ibmdotcom-web-components-canary.mybluemix.net"
    ELSE "https://ibmdotcom-react-canary.mybluemix.net"

_url(env) == IF env.SELENIUM_HOST # "" THEN env.SELENIUM_HOST ELSE _urlDefault(env)

_pathDefault == "/iframe.html?id=components-calloutquote--default"

\* one awaited call of a test
Call(op, arg, waitUntil, timeout, widths) ==
  [op |-> op, arg |-> arg, waitUntil |-> waitUntil, timeout |-> timeout,
   widths |-> widths]

newPage == Call("newPage", "", "", 0, <<>>)

goto(url) == Call("goto", url, "networkidle0", 100000, <<>>)

evaluate(script) == Call("evaluate", script, "", 0, <<>>)

percySnapshot(name) == Call("percySnapshot", name, "", 0, <<320, 1280>>)

\* document.documentElement.setAttribute("storybook-carbon-theme", theme)
setTheme(theme) ==
  "document.documentElement.setAttribute(\"storybook-carbon-theme\",\""
    \o theme \o "\")"

should_load_g100_theme(url) ==
  << newPage,
     goto(url \o _pathDefault),
     evaluate(setTheme("g100")),
     percySnapshot("Components|Callout quote: g100 theme") >>

\* the g90 test taking its snapshot before it sets the theme
should_load_g90_theme_snapshotFirst(url) ==
  << newPage,
     goto(url \o _pathDefault),
     percySnapshot("Components|Callout quote: g90 theme"),
     evaluate(setTheme("g90")) >>

should_load_g90_theme(url) ==
  << newPage,
     goto(url \o _pathDefault),
     evaluate(setTheme("g90")),
     percySnapshot("Components|Callout quote: g90 theme") >>

should_load_g10_theme(url) ==
  << newPage,
     goto(url \o _pathDefault),
     evaluate(setTheme("g10")),
     percySnapshot("Components|Callout quote: g10 theme") >>

\* the tests of the describe block, in the order Jest runs them
Tests(url) ==
  << should_load_g100_theme(url), should_load_g90_theme(url), should_load_g10_theme(url) >>

NoPage == [open |-> FALSE, url |-> "", theme |-> ""]

\* the file before it is loaded: nothing launched, no page, nothing logged
NotLoaded ==
  [ pc        |-> "load",
    test      |-> 0,
    next      |-> 0,
    url       |-> "",
    browser   |-> "none",
    page      |-> NoPage,
    log       |-> <<>>,
    snapshots |-> <<>> ]

\* what a resolved call does to the page variable and to the snapshots
Resolved(h, call) ==
  CASE call.op = "newPage" ->
         [h EXCEPT !.page = [open |-> TRUE, url |-> "about:blank", theme |-> ""]]
    [] call.op = "goto" ->
         [h EXCEPT !.page = [open |-> TRUE, url |-> call.arg, theme |-> ""]]
    [] call.op = "evaluate" ->
         [h EXCEPT !.page.theme =
            CHOOSE theme \in {"g100", "g90", "g10"} : call.arg = setTheme(theme)]
    [] call.op = "percySnapshot" ->
         [h EXCEPT !.snapshots =
            Append(@, [test |-> h.test, name |-> call.arg, widths |-> call.widths,
                       url |-> h.page.url, theme |-> h.page.theme])]

Logged(h, op, arg, outcome) ==
  [h EXCEPT !.log = Append(@, [test |-> h.test, op |-> op, arg |-> arg,
                               outcome |-> outcome])]

\* the next test, or afterAll after the last one
NextTest(h) ==
  IF h.test < Len(Tests(h.url))
    THEN [h EXCEPT !.pc = "test", !.test = @ + 1, !.next = 1]
    ELSE [h EXCEPT !.pc = "afterAll", !.test = 0, !.next = 0]

----------------------------------------------------------------------------
(* State machine *)

NoResponse == [kind |-> "none", value |-> <<>>]

NoLocaleResponse == [kind |-> "none", lc |-> <<>>, cc |-> <<>>]

\* a suggestion call awaiting its response; superseded records that the
\* response to a call issued after it has already been stored
InFlight(request) == [request |-> request, superseded |-> FALSE]

\* the calls `older' once a call issued after them has settled to response
Superseded(older, response) ==
  [k \in DOMAIN older |->
     [older[k] EXCEPT !.superseded = @ \/ response.kind = "value"]]

NoPlayerEvent ==
  [kind |-> "none",
   pre |-> VIDEO_PLAYER_CONTENT_STATE.THUMBNAIL, events |-> <<>>]

Init ==
  /\ props \in PropsSet
  /\ state = _initialState(props)
  /\ pending = <<>>
  /\ phase = "rendered"
  /\ aborted = FALSE
  /\ locale = [status |-> "idle", response |-> NoLocaleResponse, mounted |-> FALSE]
  /\ inflight = <<>>
  /\ focused = FALSE
  /\ last = [kind |-> "none", pre |-> _initialState(props), emit |-> <<>>,
             nav |-> <<>>, prevented |-> FALSE, focus |-> "", value |-> <<>>,
             flag |-> FALSE, response |-> NoResponse, calls |-> 0, log |-> <<>>,
             stale |-> FALSE]
  /\ player = DDSVideoPlayer
  /\ playerLast = NoPlayerEvent
  /\ leadspace = DDSLeadSpace
  /\ harness = NotLoaded

\* a handler runs to completion before the next event is taken
Idle == pending = <<>>

\* one browser event handled by the mounted component with effects eff,
\* after which the input has the focus or not
Event(kind, eff, value, flag, focusAfter) ==
  /\ Idle
  /\ focused' = focusAfter
  /\ phase = "mounted"
  /\ Len(inflight) + Len(eff.fetch) <= MaxInFlight
  /\ pending' = eff.dispatch
  /\ inflight' = inflight \o [k \in DOMAIN eff.fetch |-> InFlight(eff.fetch[k])]
  /\ last' = [kind |-> kind, pre |-> state, emit |-> eff.emit, nav |-> eff.nav,
              prevented |-> eff.prevented, focus |-> eff.focus, value |-> value,
              flag |-> flag, response |-> NoResponse, calls |-> Len(eff.fetch),
              log |-> eff.log, stale |-> FALSE]
  /\ UNCHANGED <<player, playerLast, leadspace, harness, props, state, phase, aborted, locale>>

\* the reducer takes the next dispatched action; the input is rendered only
\* while the widget is open, so it cannot keep the focus when it closes
Dispatch ==
  /\ pending # <<>>
  /\ state' = _reducer(state, Head(pending))
  /\ pending' = Tail(pending)
  /\ focused' = (focused /\ state'.isSearchOpen)
  /\ UNCHANGED <<player, playerLast, leadspace, harness, props, phase, aborted, locale, inflight, last>>

\* the mount effect: creates the abort controller and starts the lookup
MountEffect ==
  /\ phase = "rendered"
  /\ phase' = "mounted"
  /\ aborted' = TRUE
  /\ locale' = [locale EXCEPT !.status = "pending"]
  /\ UNCHANGED <<player, playerLast, leadspace, harness, props, state, pending, inflight, focused, last>>

\* the cleanup of the mount effect
Unmount ==
  /\ Idle
  /\ phase = "mounted"
  /\ phase' = "unmounted"
  /\ aborted' = TRUE
  /\ focused' = FALSE
  /\ UNCHANGED <<player, playerLast, leadspace, harness, props, state, pending, locale, inflight, last>>

\* LocaleAPI.getLang() resolves and the async function resumes
LocaleResolve(response) ==
  /\ Idle
  /\ locale.status = "pending"
  /\ locale' = [status |-> "resolved", response |-> response,
                mounted |-> phase = "mounted"]
  /\ pending' = IF LocaleApplies(aborted, response)
                  THEN <<Act("setLc", response.lc), Act("setCc", response.cc)>>
                  ELSE <<>>
  /\ last' = [kind |-> "localeDone", pre |-> state, emit |-> <<>>, nav |-> <<>>,
              prevented |-> FALSE, focus |-> "", value |-> <<>>,
              flag |-> phase = "mounted", response |-> NoResponse, calls |-> 0,
              log |-> <<>>, stale |-> FALSE]
  /\ UNCHANGED <<player, playerLast, leadspace, harness, props, state, phase, aborted, inflight, focused>>

\* the i-th suggestion call in flight settles and its handler resumes;
\* nothing cancels it, so it dispatches whatever the component's phase
FetchComplete(i, response) ==
  /\ Idle
  /\ i \in DOMAIN inflight
  /\ inflight' = Superseded(SubSeq(inflight, 1, i - 1), response)
                    \o SubSeq(inflight, i + 1, Len(inflight))
  /\ pending' = onSuggestionsFetchResponse(response).dispatch
  /\ last' = [kind |-> "fetchDone", pre |-> state, emit |-> <<>>, nav |-> <<>>,
              prevented |-> FALSE, focus |-> "", value |-> <<>>,
              flag |-> phase = "mounted", response |-> response,
              calls |-> Len(onSuggestionsFetchResponse(response).fetch),
              log |-> onSuggestionsFetchResponse(response).log,
              stale |-> inflight[i].superseded]
  /\ UNCHANGED <<player, playerLast, leadspace, harness, props, state, phase, aborted, locale, focused>>

\* typing or pasting in the focused input
InputChange(newValue) ==
  /\ focused
  /\ newValue # state.val
  /\ Event("inputChange", EngineInputChange(state, props, newValue), newValue,
           TRUE, TRUE)

\* the input takes the focus
InputFocus ==
  /\ state.isSearchOpen
  /\ ~focused
  /\ Event("inputFocus", EngineFocus(state, props), state.val, TRUE, TRUE)

\* the input loses the focus
InputBlur ==
  /\ focused
  /\ Event("inputBlur", EngineBlur, <<>>, TRUE, FALSE)

\* Escape: the document listener runs in the capture phase, before the
\* engine, which sees the key only when the input has the focus
EscapeKey ==
  /\ phase = "mounted"
  /\ Event("escape",
           Then(handleHideSearch(state, "Escape"),
                IF focused THEN EngineEscape(state, props) ELSE NoEffect),
           <<>>, focused, focused)

\* a key in the input with no suggestion highlighted
InputKeyDown(key) ==
  /\ focused
  /\ Event("keyDown", Then(handleHideSearch(state, key), onKeyDown(state, props, key)),
           <<key>>, TRUE, TRUE)

SuggestionClick(suggestion) ==
  /\ focused
  /\ EnginePanelOpen(state, props)
  /\ \E i \in DOMAIN state.suggestions : state.suggestions[i] = suggestion
  /\ Event("suggestionClick",
           Then(handleClickOutside(state, props, TRUE),
                EngineSuggestionClick(state, props, suggestion)),
           _getSuggestionValue(suggestion), TRUE, TRUE)

EnterOnSuggestion(suggestion) ==
  /\ focused
  /\ EnginePanelOpen(state, props)
  /\ \E i \in DOMAIN state.suggestions : state.suggestions[i] = suggestion
  /\ Event("suggestionEnter",
           Then(handleHideSearch(state, "Enter"),
                EngineEnterOnSuggestion(state, props, suggestion)),
           _getSuggestionValue(suggestion), TRUE, TRUE)

\* a click that reaches only the document listener; a click away from the
\* input comes after the input's blur
DocumentClick(targetInMasthead) ==
  /\ ~focused
  /\ Event("documentClick", handleClickOutside(state, props, targetInMasthead),
           <<>>, targetInMasthead, FALSE)

IconClick ==
  /\ ~focused
  /\ Event("iconClick",
           Then(handleClickOutside(state, props, TRUE), searchIconClick(state, props)),
           state.val, TRUE, FALSE)

CloseClick ==
  /\ ~focused
  /\ Event("closeClick", Then(handleClickOutside(state, props, TRUE), closeBtnAction),
           <<>>, TRUE, FALSE)

Next ==
  \/ MountEffect
  \/ Unmount
  \/ Dispatch
  \/ \E r \in LocaleResponses : LocaleResolve(r)
  \/ \E i \in 1..MaxInFlight, r \in Responses : FetchComplete(i, r)
  \/ \E t \in Texts : InputChange(t)
  \/ InputFocus
  \/ InputBlur
  \/ EscapeKey
  \/ \E k \in {"Enter", "a"} : InputKeyDown(k)
  \/ \E s \in Items : SuggestionClick(s)
  \/ \E s \in Items : EnterOnSuggestion(s)
  \/ \E b \in BOOLEAN : DocumentClick(b)
  \/ IconClick
  \/ CloseClick

Spec == Init /\ [][Next]_vars

----------------------------------------------------------------------------
(* The video player's state machine.  A page assigns the element's         *)
(* properties; LitElement processes the requested update in a microtask,   *)
(* so a user's click finds the element rendered from its current           *)
(* properties.                                                             *)

Durations == {<<>>, <<0>>, <<65>>}

Names == {"", "Intro"}

VideoIds == {"", "0_uka1msg4"}

searchVars == <<props, state, pending, phase, aborted, locale, inflight, focused, last>>

VideoInit ==
  /\ Init
  /\ props = defaultProps

\* the properties assigned since the last update, or since the constructor
\* when no update has been processed yet
Batch(changed) ==
  IF player.rendered = NotRendered THEN changed \ DDSVideoPlayer.changed ELSE changed

\* a property of the player is assigned a new value
HostSets(name, value) ==
  /\ player[name] # value
  /\ Cardinality(Batch(player.changed \cup {name})) <= MaxBatch
  /\ player' = SetProperty(player, name, value)
  /\ playerLast' = [kind |-> "set",
                    pre |-> player.contentState, events |-> <<>>]
  /\ UNCHANGED <<leadspace, harness, searchVars>>

SetContentState(contentState) ==
  /\ contentState \in {VIDEO_PLAYER_CONTENT_STATE.THUMBNAIL, VIDEO_PLAYER_CONTENT_STATE.VIDEO}
  /\ HostSets("contentState", contentState)

SetDuration(duration) ==
  /\ duration \in Durations
  /\ HostSets("duration", duration)

SetFormatCaption(formatCaption) ==
  /\ formatCaption \in CaptionFormatters
  /\ HostSets("formatCaption", formatCaption)

SetFormatDuration(formatDuration) ==
  /\ formatDuration \in DurationFormatters
  /\ HostSets("formatDuration", formatDuration)

SetName(name) ==
  /\ name \in Names
  /\ HostSets("name", name)

SetVideoId(videoId) ==
  /\ videoId \in VideoIds
  /\ HostSets("videoId", videoId)

\* the requested update is processed
PlayerUpdate ==
  /\ player.changed # {}
  /\ player' = DDSVideoPlayer_performUpdate(player)
  /\ playerLast' = [kind |-> "update",
                    pre |-> player.contentState, events |-> <<>>]
  /\ UNCHANGED <<leadspace, harness, searchVars>>

\* the user clicks the overlay button, which is there only if it was rendered
ClickOverlay ==
  /\ player.changed = {}
  /\ player.rendered.content = "overlay"
  /\ LET result == _handleClickOverlay(player)
     IN /\ player' = result.el
        /\ playerLast' = [kind |-> "click",
                          pre |-> player.contentState, events |-> result.events]
  /\ UNCHANGED <<leadspace, harness, searchVars>>

VideoNext ==
  \/ \E s \in {VIDEO_PLAYER_CONTENT_STATE.THUMBNAIL, VIDEO_PLAYER_CONTENT_STATE.VIDEO} :
       SetContentState(s)
  \/ \E d \in Durations : SetDuration(d)
  \/ \E f \in CaptionFormatters : SetFormatCaption(f)
  \/ \E f \in DurationFormatters : SetFormatDuration(f)
  \/ \E n \in Names : SetName(n)
  \/ \E v \in VideoIds : SetVideoId(v)
  \/ PlayerUpdate
  \/ ClickOverlay

VideoSpec == VideoInit /\ [][VideoNext]_vars

----------------------------------------------------------------------------
(* The lead space's state machine: property assignments and the update     *)
(* that renders them.                                                      *)

ImageSources == {"", "leadspace.jpg"}

AltTexts == {"", "Lead space image"}

LeadInit ==
  /\ Init
  /\ props = defaultProps

LeadSpaceSets(name, value) ==
  /\ leadspace[name] # value
  /\ leadspace' = SetProperty(leadspace, name, value)
  /\ UNCHANGED <<player, playerLast, harness, searchVars>>

SetType(type) ==
  /\ type \in {LEADSPACE_TYPE.LEFT, LEADSPACE_TYPE.CENTERED, LEADSPACE_TYPE.SMALL}
  /\ LeadSpaceSets("type", type)

SetDefaultSrc(defaultSrc) ==
  /\ defaultSrc \in ImageSources
  /\ LeadSpaceSets("defaultSrc", defaultSrc)

SetAlt(alt) ==
  /\ alt \in AltTexts
  /\ LeadSpaceSets("alt", alt)

SetGradientStyleScheme(gradientStyleScheme) ==
  /\ gradientStyleScheme \in {LEADSPACE_GRADIENT_STYLE_SCHEME.NONE,
                              LEADSPACE_GRADIENT_STYLE_SCHEME.WITH_GRADIENT}
  /\ LeadSpaceSets("gradientStyleScheme", gradientStyleScheme)

SetSize(size) ==
  /\ size \in {LEADSPACE_SIZE.NONE, LEADSPACE_SIZE.MEDIUM}
  /\ LeadSpaceSets("size", size)

LeadSpaceUpdate ==
  /\ leadspace.changed # {}
  /\ leadspace' = DDSLeadSpace_performUpdate(leadspace)
  /\ UNCHANGED <<player, playerLast, harness, searchVars>>

LeadNext ==
  \/ \E t \in {LEADSPACE_TYPE.LEFT, LEADSPACE_TYPE.CENTERED, LEADSPACE_TYPE.SMALL} :
       SetType(t)
  \/ \E s \in ImageSources : SetDefaultSrc(s)
  \/ \E a \in AltTexts : SetAlt(a)
  \/ \E g \in {LEADSPACE_GRADIENT_STYLE_SCHEME.NONE,
               LEADSPACE_GRADIENT_STYLE_SCHEME.WITH_GRADIENT} :
       SetGradientStyleScheme(g)
  \/ \E z \in {LEADSPACE_SIZE.NONE, LEADSPACE_SIZE.MEDIUM} : SetSize(z)
  \/ LeadSpaceUpdate

LeadSpec == LeadInit /\ [][LeadNext]_vars

----------------------------------------------------------------------------
(* The reducer on its own: any action, of the ten kinds or of another,     *)
(* reduced from any view-state that a sequence of actions leads to.        *)

ReducerInit ==
  /\ Init
  /\ props = defaultProps

Reduce(action) ==
  /\ state' = _reducer(state, action)
  /\ last' = [last EXCEPT !.kind = "reduce", !.pre = state,
                          !.log = <<Step("dispatch", action.type)>>]
  /\ UNCHANGED <<props, pending, phase, aborted, locale, inflight, focused,
                 player, playerLast, leadspace, harness>>

ReducerNext ==
  \/ \E t \in Texts : Reduce(Act("setVal", t))
  \/ \E r \in Results : Reduce(Act("setPrevSuggestions", r))
  \/ \E r \in LocaleResponses : Reduce(Act("setLc", r.lc))
  \/ \E r \in LocaleResponses : Reduce(Act("setCc", r.cc))
  \/ \E type \in {"emptySuggestions", "setSuggestionsToPrevious",
                   "showSuggestionsContainer", "hideSuggestionsContainer",
                   "setSearchOpen", "setSearchClosed", "reset"} :
       Reduce(Act(type, <<>>))

ReducerSpec == ReducerInit /\ [][ReducerNext]_vars

----------------------------------------------------------------------------
(* The test file's state machine *)

HarnessInit ==
  /\ Init
  /\ props = defaultProps

HarnessFrame == UNCHANGED <<player, playerLast, leadspace, searchVars>>

\* the file is loaded: the constants are computed from the environment and
\* the describe block is registered
Load(env) ==
  /\ harness.pc = "load"
  /\ harness' = [harness EXCEPT !.pc = "beforeAll", !.url = _url(env)]
  /\ HarnessFrame

\* beforeAll: browser = await puppeteer.launch()
BeforeAll(resolves) ==
  /\ harness.pc = "beforeAll"
  /\ harness' = NextTest([Logged(harness, "launch", "",
                                 IF resolves THEN "resolved" ELSE "rejected")
                            EXCEPT !.browser = IF resolves THEN "launched" ELSE "none"])
  /\ HarnessFrame

\* the next awaited call of the running test resolves
CallResolves ==
  /\ harness.pc = "test"
  /\ harness.browser = "launched"
  /\ LET test == Tests(harness.url)[harness.test]
         call == test[harness.next]
         done == Resolved(Logged(harness, call.op, call.arg, "resolved"), call)
     IN harness' = IF harness.next < Len(test)
                     THEN [done EXCEPT !.next = @ + 1]
                     ELSE NextTest(done)
  /\ HarnessFrame

\* the next awaited call rejects: the test fails and Jest goes on
CallRejects ==
  /\ harness.pc = "test"
  /\ harness.browser = "launched"
  /\ LET call == Tests(harness.url)[harness.test][harness.next]
     IN harness' = NextTest(Logged(harness, call.op, call.arg, "rejected"))
  /\ HarnessFrame

\* without a browser the test throws at browser.newPage
TestThrows ==
  /\ harness.pc = "test"
  /\ harness.browser # "launched"
  /\ harness' = NextTest(harness)
  /\ HarnessFrame

\* afterAll: await browser.close(), which throws when nothing was launched
AfterAll ==
  /\ harness.pc = "afterAll"
  /\ harness' =
       IF harness.browser = "launched"
         THEN [Logged(harness, "close", "", "resolved")
                 EXCEPT !.pc = "done", !.browser = "closed", !.page.open = FALSE]
         ELSE [harness EXCEPT !.pc = "done"]
  /\ HarnessFrame

HarnessNext ==
  \/ \E env \in Envs : Load(env)
  \/ \E resolves \in BOOLEAN : BeforeAll(resolves)
  \/ CallResolves
  \/ CallRejects
  \/ TestThrows
  \/ AfterAll

HarnessSpec == HarnessInit /\ [][HarnessNext]_vars

----------------------------------------------------------------------------
(* Properties.  They are stated over the view-state and over `last', the   *)
(* record of the most recent event: last.pre is the view-state the event's *)
(* handlers saw, and once Idle holds every action they dispatched has been *)
(* reduced.                                                                *)

NoRedirectEvents(emitted) ==
  SelectSeq(emitted, LAMBDA e : e.type = "onSearchNoRedirect")

\* C1: whenever the trimmed input text is shorter than renderValue, the
\* suggestion panel's visibility flag is false (at every handler boundary).
C1_ShortTextPanelHidden ==
  (Idle /\ ~shouldRenderSuggestions(props, state.val))
    => ~state.suggestionContainerVisible

\* C2: with searchNoRedirect, selecting a suggestion by click or by Enter
\* never navigates and emits exactly one onSearchNoRedirect notification,
\* carrying the selected suggestion's value.
C2_SelectionNotifiesOnce ==
  (props.searchNoRedirect /\ last.kind \in {"suggestionClick", "suggestionEnter"})
    => /\ last.nav = <<>>
       /\ NoRedirectEvents(last.emit)
            = <<[type |-> "onSearchNoRedirect", value |-> last.value]>>

\* C3: once a suggestion fetch that completed with a defined result R has
\* been processed, the cache and the active list are R, the panel is visible
\* and the other view-state fields are as before the completion.
C3_FetchResultStored ==
  (Idle /\ last.kind = "fetchDone" /\ last.response.kind = "value")
    => state = [last.pre EXCEPT !.prevSuggestions = last.response.value,
                                !.suggestions = last.response.value,
                                !.suggestionContainerVisible = TRUE]

C3_Witness ==
  /\ Idle
  /\ last.kind = "fetchDone"
  /\ last.response.kind = "value"
  /\ last.response.value # <<>>
  /\ last.pre.prevSuggestions # <<>>
  /\ last.pre.prevSuggestions # last.response.value
  /\ state.suggestions = last.response.value

ListEmptyOrCache ==
  state.suggestions = <<>> \/ state.suggestions = state.prevSuggestions

\* C4 as stated: in every state, also between the dispatches of one handler,
\* the active list is empty or equal to the cache.
C4_ListEmptyOrCacheAlways == ListEmptyOrCache

\* C4 amended: whenever no handler is in the middle of its dispatches, the
\* active list is empty or equal to the previous-suggestions cache.
C4_ListEmptyOrCacheWhenIdle == Idle => ListEmptyOrCache

C4_Witness ==
  /\ Idle
  /\ last.kind = "fetchDone"
  /\ last.pre.suggestions # <<>>
  /\ state.suggestions # <<>>
  /\ state.suggestions # last.pre.suggestions

C6_ClickOutside ==
  (Idle /\ last.kind = "documentClick" /\ props.inMasthead)
    => IF ~last.flag /\ last.pre.val = <<>>
         THEN state = [last.pre EXCEPT !.isSearchOpen = FALSE]
         ELSE state = last.pre

C6_Witness ==
  /\ Idle
  /\ last.kind = "documentClick"
  /\ props.inMasthead
  /\ ~last.flag
  /\ last.pre.val # <<>>
  /\ last.pre.isSearchOpen
  /\ state.isSearchOpen

\* C7: when the locale lookup resolves with {lc, cc} while the component is
\* mounted, the view-state language and country become that lc and cc.
C7_LocaleConsumed ==
  (Idle /\ last.kind = "localeDone" /\ locale.mounted
     /\ locale.response.kind = "value")
    => /\ state.lc = locale.response.lc
       /\ state.cc = locale.response.cc

\* C8: when the locale lookup resolves after the component unmounted, the
\* call has been marked cancelled, nothing is dispatched and language and
\* country stay as they were.
C8_LateLocaleDiscarded ==
  (last.kind = "localeDone" /\ ~locale.mounted)
    => /\ aborted
       /\ pending = <<>>
       /\ state = last.pre

C8_Witness ==
  /\ last.kind = "localeDone"
  /\ phase = "unmounted"
  /\ ~locale.mounted
  /\ locale.response.kind = "value"
  /\ state.lc # locale.response.lc

\* C9: a suggestion fetch that resolves to undefined or is rejected
\* dispatches nothing, leaves the view-state as it was and starts no new
\* remote call.
C9_FailedFetchChangesNothing ==
  (last.kind = "fetchDone" /\ last.response.kind \in {"undefined", "rejected"})
    => /\ pending = <<>>
       /\ state = last.pre
       /\ last.calls = 0

C9_Witness ==
  /\ last.kind = "fetchDone"
  /\ last.response.kind = "undefined"
  /\ last.pre.prevSuggestions # <<>>
  /\ state.suggestions = <<>>
  /\ ~state.suggestionContainerVisible

Navigates ==
  /\ ~props.searchNoRedirect
  /\ \/ last.kind \in {"suggestionClick", "suggestionEnter"}
     \/ last.kind = "iconClick" /\ last.pre.isSearchOpen /\ last.pre.val # <<>>

NavigatedValue ==
  IF last.kind = "iconClick" THEN last.pre.val ELSE last.value

\* C10: the widget navigates exactly on a suggestion selection or an icon
\* click with the widget open and text present, both without redirect
\* suppression, and then the URL is the endpoint, "&q=" and the
\* percent-encoded value, "&lang=" and "&cc=" with the view-state's
\* language and country.
C10_RedirectUrl ==
  /\ Navigates =>
       last.nav = _redirectUrl \o <<"&q=">> \o encodeURIComponent(NavigatedValue)
                    \o <<"&lang=">> \o last.pre.lc \o <<"&cc=">> \o last.pre.cc
  /\ last.nav # <<>> => Navigates

C10_Witness ==
  /\ last.kind = "iconClick"
  /\ last.nav # <<>>
  /\ encodeURIComponent(last.pre.val) # last.pre.val


\* the steps of the last event made by one handler, and what they are
StepsBy(name) == SelectSeq(last.log, LAMBDA x : x.by = name)

Kinds(steps) == [i \in DOMAIN steps |-> <<steps[i].step, steps[i].type>>]

DispatchCount == Len(SelectSeq(last.log, LAMBDA x : x.step = "dispatch"))

\* C11: an icon click on the closed widget emits one onOpenSearch and
\* nothing else, does not navigate whatever the stored text, and sets
\* isSearchOpen to true and no other field.
C11_IconClickOpens ==
  (last.kind = "iconClick" /\ ~last.pre.isSearchOpen)
    => /\ last.emit = <<[type |-> "onOpenSearch", value |-> <<>>]>>
       /\ last.nav = <<>>
       /\ Idle => state = [last.pre EXCEPT !.isSearchOpen = TRUE]

C11_Witness ==
  /\ Idle
  /\ last.kind = "iconClick"
  /\ ~last.pre.isSearchOpen
  /\ last.pre.val # <<>>
  /\ state.isSearchOpen

\* C12: an icon click on the open widget with text emits onSearchButtonClicked
\* with the text and then either navigates to the redirect URL of the text
\* (no redirect suppression) or emits onSearchNoRedirect with the text
\* (redirect suppression); it dispatches nothing.
C12_IconClickSubmits ==
  (last.kind = "iconClick" /\ last.pre.isSearchOpen /\ last.pre.val # <<>>)
    => /\ pending = <<>>
       /\ state = last.pre
       /\ IF props.searchNoRedirect
            THEN /\ last.emit = <<[type |-> "onSearchButtonClicked", value |-> last.pre.val],
                                  [type |-> "onSearchNoRedirect", value |-> last.pre.val]>>
                 /\ last.nav = <<>>
            ELSE /\ last.emit = <<[type |-> "onSearchButtonClicked", value |-> last.pre.val]>>
                 /\ Kinds(last.log) = << <<"emit", "onSearchButtonClicked">>,
                                         <<"navigate", "">> >>
                 /\ last.nav = _redirectUrl \o <<"&q=">>
                                 \o encodeURIComponent(last.pre.val)
                                 \o <<"&lang=">> \o last.pre.lc
                                 \o <<"&cc=">> \o last.pre.cc

C12_Witness ==
  /\ last.kind = "iconClick"
  /\ props.searchNoRedirect
  /\ last.pre.isSearchOpen
  /\ last.pre.val # <<>>
  /\ Len(last.emit) = 2

\* C13: a close-button click emits one onSearchCloseClicked, then dispatches
\* the reset, then moves the focus to the search icon; once reduced, the
\* text is empty and the widget is closed, the other fields as before.
C13_CloseResets ==
  last.kind = "closeClick"
    => /\ last.emit = <<[type |-> "onSearchCloseClicked", value |-> <<>>]>>
       /\ Kinds(StepsBy("closeBtnAction"))
            = << <<"emit", "onSearchCloseClicked">>,
                 <<"dispatch", "setSearchClosed">>,
                 <<"dispatch", "setVal">>,
                 <<"focus", "l0-search">> >>
       /\ last.focus = "l0-search"
       /\ Idle => state = [last.pre EXCEPT !.val = <<>>, !.isSearchOpen = FALSE]

C13_Witness ==
  /\ Idle
  /\ last.kind = "closeClick"
  /\ last.pre.val # <<>>
  /\ last.pre.isSearchOpen
  /\ state.val = <<>>
  /\ ~state.isSearchOpen

\* C14: typing a new text makes onChange emit one onSearchValueChanged with
\* the new text and dispatch setVal and nothing else (no remote call); when
\* that dispatch is reduced only the text has changed.
C14_TextChangeOnlySetsText ==
  last.kind = "inputChange"
    => /\ Kinds(StepsBy("onChange"))
            = << <<"emit", "onSearchValueChanged">>, <<"dispatch", "setVal">> >>
       /\ last.emit = <<[type |-> "onSearchValueChanged", value |-> last.value]>>
       /\ Len(pending) = DispatchCount - 1
            => state = [last.pre EXCEPT !.val = last.value]

C14_Witness ==
  /\ last.kind = "inputChange"
  /\ Len(pending) = DispatchCount - 1
  /\ pending # <<>>
  /\ last.pre.suggestions # <<>>
  /\ last.pre.suggestionContainerVisible
  /\ state.suggestions = last.pre.suggestions
  /\ state.val = last.value

RequestReasons ==
  { StepsBy("onSuggestionsFetchRequest")[i].arg :
      i \in DOMAIN StepsBy("onSuggestionsFetchRequest") }

ExpectedInitialText ==
  IF props.initialSearchTerm # <<>> THEN props.initialSearchTerm
  ELSE IF ~props.queryString.throws /\ props.queryString.q \notin {Null, <<>>}
    THEN props.queryString.q
    ELSE <<>>

\* C19: the initial text is the initialSearchTerm prop when non-empty, else
\* the page's q parameter when present and non-empty, else the empty
\* string; the text is never null.
C19_InitialText ==
  /\ state.val # Null
  /\ phase = "rendered" => state.val = ExpectedInitialText

C19_Witness ==
  /\ phase = "rendered"
  /\ props.initialSearchTerm = <<>>
  /\ props.queryString = NoQuery
  /\ state.val = <<>>

----------------------------------------------------------------------------
(* Properties of the video player.  playerLast is the most recent          *)
(* operation on the element: playerLast.pre is the content state it found. *)

PlayerSettled == player.changed = {}

C17_ClickNotifiesOnce ==
  /\ playerLast.kind = "click" =>
       /\ Len(playerLast.events) = 1
       /\ LET e == playerLast.events[1]
          IN /\ e.event.type = "dds-video-player-content-state-changed"
             /\ e.event.bubbles
             /\ e.event.composed
             /\ e.event.detail.videoId = player.videoId
             /\ e.event.detail.contentState = VIDEO_PLAYER_CONTENT_STATE.VIDEO
             /\ e.target.contentState = VIDEO_PLAYER_CONTENT_STATE.VIDEO
  /\ playerLast.kind # "click" => playerLast.events = <<>>

\* the overlay of a player with a video id has been clicked
C17_Witness ==
  /\ playerLast.kind = "click"
  /\ player.videoId = "0_uka1msg4"
  /\ playerLast.events # <<>>

\* the aria-label attribute mirrors the caption; a missing attribute counts
\* as mirroring the empty caption
AriaLabelMirrorsCaption ==
  IF Caption(player) = ""
  THEN ~player.ariaLabel.present \/ player.ariaLabel.value = ""
  ELSE player.ariaLabel.present /\ player.ariaLabel.value = Caption(player)

\* C18: once the requested update is processed, the aria-label equals the
\* caption computed from the current duration, name, caption formatter and
\* duration formatter.
C18_AriaLabelMirrorsCaption ==
  (PlayerSettled /\ player.rendered # NotRendered) => AriaLabelMirrorsCaption

----------------------------------------------------------------------------
(* Properties of the lead space *)

LeadSpaceRendered == leadspace.changed = {} /\ leadspace.rendered # <<>>

CenteredWithImage ==
  leadspace.type = LEADSPACE_TYPE.CENTERED /\ leadspace.defaultSrc # ""

\* C20: for every type and image source, once rendered, the section has an
\* inline background-image style, the section has the centered-image class,
\* and the mobile image is rendered in place of the image slot, each exactly
\* when the type is centered and the image source is not empty.
C20_ImageOutputsAgree ==
  LeadSpaceRendered =>
    LET out == leadspace.rendered[1]
    IN /\ (out.section.style # "") = CenteredWithImage
       /\ CenteredWithImage =>
            out.section.style = "background-image: url(" \o leadspace.defaultSrc \o ")"
       /\ ("bx--leadspace--centered__image" \in out.section.class) = CenteredWithImage
       /\ (out.image.tag = "div") = CenteredWithImage
       /\ (out.image.tag = "slot") = ~CenteredWithImage
       /\ CenteredWithImage =>
            /\ out.image.class = "bx--leadspace--centered--mobile__image"
            /\ out.image.src = leadspace.defaultSrc

\* a centered lead space with an image has been rendered
C20_Witness ==
  /\ LeadSpaceRendered
  /\ CenteredWithImage
  /\ leadspace.rendered[1].image.tag = "div"

----------------------------------------------------------------------------
(* Properties of the reducer *)

Fields ==
  {"val", "suggestions", "prevSuggestions", "suggestionContainerVisible",
   "isSearchOpen", "lc", "cc"}

\* the fields an action of the given kind may change
OwnFields(type) ==
  CASE type = "setVal" -> {"val"}
    [] type \in {"emptySuggestions", "setSuggestionsToPrevious"} -> {"suggestions"}
    [] type = "setPrevSuggestions" -> {"prevSuggestions"}
    [] type \in {"showSuggestionsContainer", "hideSuggestionsContainer"} ->
         {"suggestionContainerVisible"}
    [] type \in {"setSearchOpen", "setSearchClosed"} -> {"isSearchOpen"}
    [] type = "setLc" -> {"lc"}
    [] type = "setCc" -> {"cc"}
    [] OTHER -> {}

\* C21: every reducer action returns a view-state with the same fields in
\* which only the action's own field may differ from the old state; an
\* action of another kind returns the state unchanged.
C21_ReducerFrame ==
  last.kind = "reduce" =>
    /\ DOMAIN state = Fields
    /\ \A f \in Fields \ OwnFields(last.log[1].type) : state[f] = last.pre[f]

\* setSearchClosed has been reduced from an open widget holding a text
C21_Witness ==
  /\ last.kind = "reduce"
  /\ last.log[1].type = "setSearchClosed"
  /\ last.pre.isSearchOpen
  /\ ~state.isSearchOpen
  /\ state.val # <<>>

----------------------------------------------------------------------------
(* Properties of the search widget, continued *)

\* C22: the key handler makes steps only for Enter under redirect
\* suppression: one onSearchNoRedirect carrying the stored text, then
\* preventDefault; for Enter without suppression and for any other key it
\* emits nothing and does not cancel the default action; a key press in the
\* input never navigates and changes no view-state field.
C22_EnterKey ==
  /\ \A i \in DOMAIN last.log :
       last.log[i].by = "onKeyDown" =>
         /\ last.log[i].arg = "Enter"
         /\ props.searchNoRedirect
         /\ last.log[i].step \in {"emit", "preventDefault"}
  /\ last.kind = "keyDown" =>
       /\ last.nav = <<>>
       /\ pending = <<>>
       /\ state = last.pre
       /\ IF last.value = <<"Enter">> /\ props.searchNoRedirect
            THEN /\ Kinds(StepsBy("onKeyDown"))
                      = << <<"emit", "onSearchNoRedirect">>, <<"preventDefault", "">> >>
                 /\ last.emit = <<[type |-> "onSearchNoRedirect", value |-> last.pre.val]>>
                 /\ last.prevented
            ELSE /\ last.log = <<>>
                 /\ last.emit = <<>>
                 /\ ~last.prevented

\* Enter was pressed on a stored text under redirect suppression
C22_Witness ==
  /\ last.kind = "keyDown"
  /\ last.value = <<"Enter">>
  /\ props.searchNoRedirect
  /\ last.pre.val # <<>>
  /\ last.prevented

----------------------------------------------------------------------------
(* Properties of the lead space, continued *)

WithGradient ==
  leadspace.gradientStyleScheme = LEADSPACE_GRADIENT_STYLE_SCHEME.WITH_GRADIENT

\* C23: for either gradient style scheme and any type, once rendered, the
\* overlay element has the overlay class; it has the gradient class, and the
\* gradient SVG is rendered, exactly when the scheme is with-gradient; a
\* rendered gradient has the stops 0%, 27%, 53%, 80% when the type is
\* centered and 0%, 50%, 75% otherwise.
C23_GradientOutputs ==
  LeadSpaceRendered =>
    LET out == leadspace.rendered[1].overlay
    IN /\ "bx--leadspace__overlay" \in out.class
       /\ ("bx--leadspace--gradient" \in out.class) = WithGradient
       /\ out.svg = WithGradient
       /\ out.stops =
            IF ~WithGradient THEN <<>>
            ELSE IF leadspace.type = LEADSPACE_TYPE.CENTERED
              THEN <<"0%", "27%", "53%", "80%">>
              ELSE <<"0%", "50%", "75%">>

\* a centered lead space without gradient has been rendered
C23_Witness ==
  /\ LeadSpaceRendered
  /\ ~WithGradient
  /\ leadspace.type = LEADSPACE_TYPE.CENTERED
  /\ leadspace.rendered[1].overlay.stops = <<>>

\* C24: when suggestion calls in flight at once settle in any order, a
\* response to a call never replaces the stored response to a call issued
\* after it, so that the cache and the active list end up holding the result
\* of the most recently issued call.
C24_NewestResponseWins ==
  (Idle /\ last.kind = "fetchDone" /\ last.stale)
    => /\ state.prevSuggestions = last.pre.prevSuggestions
       /\ state.suggestions = last.pre.suggestions

\* C25: whenever the widget is closed (at every handler boundary), the
\* suggestion panel's visibility flag is false.
C25_ClosedPanelHidden ==
  (Idle /\ ~state.isSearchOpen) => ~state.suggestionContainerVisible

\* C26: an icon click never closes the widget: on the open widget without
\* text it emits one onSearchButtonClicked with the empty value, does not
\* navigate and leaves the view-state as it was; and isSearchOpen goes from
\* true to false only by the close button, by Escape with the panel hidden,
\* or by a click outside the masthead with empty text.
C26_IconClickNeverCloses ==
  /\ (last.kind = "iconClick" /\ Idle) => state.isSearchOpen
  /\ (last.kind = "iconClick" /\ last.pre.isSearchOpen /\ last.pre.val = <<>>)
       => /\ last.emit = <<[type |-> "onSearchButtonClicked", value |-> <<>>]>>
          /\ last.nav = <<>>
          /\ Idle => state = last.pre
  /\ (last.pre.isSearchOpen /\ ~state.isSearchOpen)
       => \/ last.kind = "closeClick"
          \/ last.kind = "escape" /\ ~last.pre.suggestionContainerVisible
          \/ /\ last.kind = "documentClick"
             /\ ~last.flag
             /\ last.pre.val = <<>>

\* the icon of the open widget without text has been clicked
C26_Witness ==
  /\ Idle
  /\ last.kind = "iconClick"
  /\ last.pre.isSearchOpen
  /\ last.pre.val = <<>>
  /\ last.emit # <<>>
  /\ state.isSearchOpen

----------------------------------------------------------------------------
(* Properties of the visual-regression test file *)

Themes == <<"g100", "g90", "g10">>

StoryUrl == harness.url \o "/iframe.html?id=components-calloutquote--default"

\* the calls of a scenario for a theme, in order
Scenario(theme) ==
  << Call("newPage", "", "", 0, <<>>),
     Call("goto", StoryUrl, "networkidle0", 100000, <<>>),
     Call("evaluate",
          "document.documentElement.setAttribute(\"storybook-carbon-theme\",\""
            \o theme \o "\")", "", 0, <<>>),
     Call("percySnapshot", "Components|Callout quote: " \o theme \o " theme", "", 0,
          <<320, 1280>>) >>

LogOf(test) == SelectSeq(harness.log, LAMBDA e : e.test = test)

LogCount(op) == Len(SelectSeq(harness.log, LAMBDA e : e.op = op))

\* C27: the browser is launched once, before any scenario, and the launched
\* browser is closed once, after all three; the scenarios run in the order
\* g100, g90, g10 and the calls of each occur in the order open page,
\* navigate to the story URL waiting for the network to be idle, set the
\* theme attribute, capture the snapshot (a rejected call ends its
\* scenario); every snapshot is captured from a page on the story URL
\* carrying its scenario's theme; and the scenarios differ only in the theme.
C27_HarnessOrder ==
  LET log == harness.log
  IN /\ log # <<>> => log[1].op = "launch"
     /\ LogCount("launch") <= 1
     /\ harness.pc \notin {"load", "beforeAll"} => LogCount("launch") = 1
     /\ LogCount("close") <= 1
     /\ \A i \in DOMAIN log :
          log[i].op = "close" => i = Len(log) /\ harness.pc = "done"
     /\ (harness.pc = "done" /\ log[1].outcome = "resolved")
          => /\ log[Len(log)].op = "close"
             /\ harness.browser = "closed"
     /\ \A i, j \in DOMAIN log :
          (i < j /\ log[i].test # 0 /\ log[j].test # 0) => log[i].test <= log[j].test
     /\ \A t \in DOMAIN Themes :
          LET calls == LogOf(t)
          IN /\ Len(calls) <= Len(Scenario(Themes[t]))
             /\ \A k \in DOMAIN calls :
                  /\ calls[k].op = Scenario(Themes[t])[k].op
                  /\ calls[k].arg = Scenario(Themes[t])[k].arg
                  /\ k < Len(calls) => calls[k].outcome = "resolved"
     /\ \A k \in DOMAIN harness.snapshots :
          LET shot == harness.snapshots[k]
          IN /\ shot.theme = Themes[shot.test]
             /\ shot.url = StoryUrl
             /\ shot.name = "Components|Callout quote: " \o Themes[shot.test] \o " theme"
     /\ harness.pc # "load" =>
          /\ Len(Tests(harness.url)) = Len(Themes)
          /\ \A t \in DOMAIN Themes : Tests(harness.url)[t] = Scenario(Themes[t])

\* a run in which every call resolved: three snapshots, browser closed
C27_Witness ==
  /\ harness.pc = "done"
  /\ harness.browser = "closed"
  /\ Len(harness.snapshots) = 3
  /\ harness.url = "http://localhost:6006"
====
